---- MODULE Spec2Model ----
(***************************************************************************)
(* Model of the dynamic component renderer of ai-meeting-summarizer:       *)
(*   ComponentRegistryService  (core/services/component-registry.service)  *)
(*   DynamicRendererComponent  (shared/components/dynamic-renderer)        *)
(*                                                                         *)
(* renderComponents is an async function.  It runs synchronously up to its *)
(* first await; every later piece runs as a microtask.  The model keeps    *)
(* the FIFO microtask queue of the suspended invocations, so that calls    *)
(* made by the host while an invocation is suspended interleave with it    *)
(* exactly as the JavaScript job queue interleaves them.                   *)
(***************************************************************************)
EXTENDS Integers, Sequences, FiniteSets, TLC

VARIABLES
    componentRegistry,   \* ComponentRegistryService.componentRegistry (a Map)
    aguiMessage,         \* @Input aguiMessage
    maxComponents,       \* @Input maxComponents
    lifecycle,           \* Angular lifecycle of the renderer component
    container,           \* views held by dynamicContainer, in creation order
    instances,           \* every widget instance created so far
    createdComponents,   \* DynamicRendererComponent.createdComponents
    renderStats,         \* DynamicRendererComponent.renderStats
    isRendering,         \* DynamicRendererComponent.isRendering
    renderErrorMessage,  \* DynamicRendererComponent.renderErrorMessage
    emitted,             \* events published on renderComplete / renderError
    passes,              \* the calls of renderComponents / clearComponents so far
    microtasks,          \* FIFO queue of suspended invocations
    failures,            \* creation failures injected by the host container
    regOps,              \* calls of the registry's administrative operations
    now,                 \* the clock read by `new Date()`
    invocations,         \* the calls widgets have made of their hooks
    componentInteraction, \* events published on componentInteraction
    componentDataChange  \* events published on componentDataChange

\* What only the widgets and the clock change.
hostVars == << now, invocations, componentInteraction, componentDataChange >>

vars == << componentRegistry, aguiMessage, maxComponents, lifecycle, container,
           instances, createdComponents, renderStats, isRendering,
           renderErrorMessage, emitted, passes, microtasks, failures, regOps,
           now, invocations, componentInteraction, componentDataChange >>

(***************************************************************************)
(* Bounds of the model.                                                    *)
(***************************************************************************)
MaxPasses == 2      \* calls of renderComponents and clearComponents
MaxFailures == 1    \* creations the host container makes fail
MaxRegOps == 2      \* register / unregister / clear calls
MaxEntries == 3     \* longest manifest of the ordering specification
MaxPriority == 2    \* largest priority of the ordering specification
MaxInvocations == 2 \* calls widgets make of their hooks
MaxClock == 1       \* ticks of the clock

(***************************************************************************)
(* Program constants.                                                      *)
(***************************************************************************)
DEFAULT_FALLBACK == "text_section"
DefaultMaxComponents == 50

\* The type identifiers of the model: the default fallback; a registered type
\* with a fallback mapping; a type with a fallback mapping that
\* initializeRegistry never registers; a type with neither.
ComponentTypes == {"text_section", "checklist", "data_table", "unknown_x"}

\* Widget classes.  The first two are registered by initializeRegistry; their
\* onDataChange / onInteraction fields are declared without an initializer.
\* HookedWidget stands for a class that defines both hooks itself.
ComponentClasses == {"TextSectionComponent", "ChecklistComponent", "HookedWidget"}

ClassHooks(class) == IF class = "HookedWidget" THEN "own" ELSE "unset"

(***************************************************************************)
(* ComponentRegistryService                                                *)
(***************************************************************************)
NoMetadata ==
    [ componentClass |-> "none", requiresInteraction |-> FALSE,
      category |-> "none", displayName |-> "none", description |-> "none",
      fallbackType |-> "none" ]

\* Partial<ComponentMetadata> arguments: a field that is left out is "omitted".
OmittedMetadata ==
    [ requiresInteraction |-> "omitted", category |-> "omitted",
      displayName |-> "omitted", description |-> "omitted",
      fallbackType |-> "omitted" ]

FullMetadata(type, componentClass, metadata) ==
    [ componentClass |-> componentClass,
      requiresInteraction |->
          IF metadata.requiresInteraction = "omitted" THEN FALSE
          ELSE metadata.requiresInteraction = "true",
      category |->
          IF metadata.category = "omitted" THEN "general" ELSE metadata.category,
      displayName |->
          IF metadata.displayName = "omitted" THEN type ELSE metadata.displayName,
      description |->
          IF metadata.description = "omitted" THEN "Dynamic " \o type \o " component"
          ELSE metadata.description,
      fallbackType |->
          IF metadata.fallbackType = "omitted" THEN "none"
          ELSE metadata.fallbackType ]

\* Map.set: insert or overwrite.
MapSet(map, key, value) ==
    [ k \in DOMAIN map \cup {key} |-> IF k = key THEN value ELSE map[k] ]

MapDelete(map, key) == [ k \in DOMAIN map \ {key} |-> map[k] ]

EmptyMap == [ k \in {} |-> NoMetadata ]

Range(s) == { s[i] : i \in 1..Len(s) }

\* Map.get: the entry, or undefined (NoMetadata).
MapGet(map, key) == IF key \in DOMAIN map THEN map[key] ELSE NoMetadata

\* A type that is already registered keeps its entry.
RegisterIntoKeepsFirst(map, type, componentClass, metadata) ==
    IF type \in DOMAIN map THEN map
    ELSE MapSet(map, type, FullMetadata(type, componentClass, metadata))

\* registerComponent: componentRegistry.set(type, fullMetadata).
RegisterInto(map, type, componentClass, metadata) ==
    MapSet(map, type, FullMetadata(type, componentClass, metadata))

TextSectionMetadata ==
    [ requiresInteraction |-> "true", category |-> "content",
      displayName |-> "Text Section", description |-> "text",
      fallbackType |-> "omitted" ]

ChecklistMetadata ==
    [ requiresInteraction |-> "true", category |-> "action",
      displayName |-> "Checklist", description |-> "checklist",
      fallbackType |-> "omitted" ]

\* The registry after the constructor: of the six registrations the model
\* keeps text_section and checklist; the other four behave as checklist does.
InitialRegistry ==
    RegisterInto(
        RegisterInto(EmptyMap, "text_section", "TextSectionComponent",
                     TextSectionMetadata),
        "checklist", "ChecklistComponent", ChecklistMetadata)

\* The static table of findFallbackComponent ("none": no mapping).
FallbackMappings(requestedType) ==
    IF requestedType \in {"checklist", "data_table"} THEN "text_section"
    ELSE "none"

FindFallbackComponent(map, requestedType) ==
    LET fallbackType == FallbackMappings(requestedType) IN
    IF fallbackType # "none"
    THEN [ metadata |-> MapGet(map, fallbackType), type |-> fallbackType ]
    ELSE [ metadata |-> NoMetadata, type |-> requestedType ]

\* The test made on every lookup is inverted: a registered entry counts as
\* missing.
MissingInverted(metadata) == metadata # NoMetadata

\* `!metadata`: the lookup found nothing.
Missing(metadata) == metadata = NoMetadata

\* A default fallback that is not registered goes unnoticed.
DefaultFallbackMissingIgnored(map) == FALSE

\* Lines 195-197: even the default fallback is not registered.
DefaultFallbackMissing(map) == Missing(MapGet(map, DEFAULT_FALLBACK))

\* A fallback is reported as the requested type: wasOriginalType is true on
\* every path.
ResolveComponentAlwaysOriginal(map, type) ==
    LET direct == MapGet(map, type)
        fb == FindFallbackComponent(map, type)
        dflt == MapGet(map, DEFAULT_FALLBACK)
    IN  IF ~Missing(direct)
        THEN [ found |-> TRUE, metadata |-> direct, actualType |-> type,
               wasOriginalType |-> TRUE, lookups |-> 1 ]
        ELSE IF ~Missing(fb.metadata)
        THEN [ found |-> TRUE, metadata |-> fb.metadata, actualType |-> fb.type,
               wasOriginalType |-> TRUE, lookups |-> 2 ]
        ELSE [ found |-> ~DefaultFallbackMissing(map), metadata |-> dflt,
               actualType |-> DEFAULT_FALLBACK, wasOriginalType |-> TRUE,
               lookups |-> IF FallbackMappings(type) # "none" THEN 3 ELSE 2 ]

\* Lines 175-198 of createComponent: which registry entry is instantiated.
\* lookups counts the registry reads made on the way.
ResolveComponent(map, type) ==
    LET direct == MapGet(map, type)
        fb == FindFallbackComponent(map, type)
        dflt == MapGet(map, DEFAULT_FALLBACK)
    IN  IF ~Missing(direct)
        THEN [ found |-> TRUE, metadata |-> direct, actualType |-> type,
               wasOriginalType |-> TRUE, lookups |-> 1 ]
        ELSE IF ~Missing(fb.metadata)
        THEN [ found |-> TRUE, metadata |-> fb.metadata, actualType |-> fb.type,
               wasOriginalType |-> FALSE, lookups |-> 2 ]
        ELSE [ found |-> ~DefaultFallbackMissing(map), metadata |-> dflt,
               actualType |-> DEFAULT_FALLBACK, wasOriginalType |-> FALSE,
               lookups |-> IF FallbackMappings(type) # "none" THEN 3 ELSE 2 ]

(***************************************************************************)
(* Manifests (AGUIMessage, AGUIComponent)                                  *)
(***************************************************************************)
\* The _agui context of a payload that has none.
NoAgui ==
    [ id |-> "none", type |-> "none", title |-> "none", priority |-> 0,
      category |-> "none", spec |-> "none" ]

\* A payload: its own top-level fields (content), the number of entries of
\* its items array whose status is 'completed' (items), its completed counter
\* and its _agui field.
Payload(content) ==
    [ content |-> content, items |-> 0, completed |-> 0, agui |-> NoAgui ]

AGUIComponent(id, type, priority, category) ==
    [ id |-> id, type |-> type, title |-> id, priority |-> priority,
      category |-> category, data |-> Payload(id), agui_spec |-> "1.0" ]

\* aguiMessage = null
NullMessage ==
    [ present |-> FALSE, version |-> "none", hasComponents |-> FALSE,
      components |-> << >> ]

\* A message; hasComponents = FALSE: the optional components field is absent.
AGUIMessage(version, hasComponents, components) ==
    [ present |-> TRUE, version |-> version, hasComponents |-> hasComponents,
      components |-> components ]

\* The scenario manifest of the specification: an unknown type behind a
\* text_section of lower priority value.
ManifestA ==
    AGUIMessage("1.0", TRUE,
        << AGUIComponent("c1", "unknown_x", 2, "content"),
           AGUIComponent("c2", "text_section", 1, "content") >>)

\* An _agui field that the payload of an entry brings along itself.
SuppliedAgui == [ NoAgui EXCEPT !.id = "supplied", !.type = "supplied" ]

\* One entry, of a type with a fallback mapping that is not registered; its
\* payload has an _agui field of its own.
ManifestB ==
    AGUIMessage("1.0", TRUE,
        << [ AGUIComponent("c3", "data_table", 1, "action") EXCEPT
               !.data.agui = SuppliedAgui ] >>)

\* The protocol version AguiService accepts.
SupportedVersion == "1.0"

\* AguiService.validateAguiMessage: a message with a components array, the
\* supported version, and entries that have an id, a type and data (every
\* entry of the model has data).  The renderer never calls it.
ValidateAguiMessage(message) ==
    /\ message.present
    /\ message.hasComponents
    /\ message.version = SupportedVersion
    /\ \A i \in 1..Len(message.components) :
           message.components[i].id # "" /\ message.components[i].type # ""

\* A manifest of another protocol version.
ManifestV ==
    AGUIMessage("2.0", TRUE, << AGUIComponent("v5", "text_section", 1, "content") >>)

\* A checklist with one completed item whose completed counter says 0.
ManifestC ==
    AGUIMessage("1.0", TRUE,
        << [ AGUIComponent("c4", "checklist", 1, "action") EXCEPT
               !.data.items = 1 ] >>)

Messages ==
    { NullMessage, AGUIMessage("1.0", FALSE, << >>),
      AGUIMessage("1.0", TRUE, << >>), ManifestA, ManifestB, ManifestC }

\* The component list with the payload object of entry id as it is now.
WithPayload(components, id, data) ==
    [ i \in 1..Len(components) |->
        IF components[i].id = id THEN [ components[i] EXCEPT !.data = data ]
        ELSE components[i] ]

\* The values bound to maxComponents.
MaxComponentsInputs == {DefaultMaxComponents}

(***************************************************************************)
(* Sorting and truncation (renderComponents, lines 193-196)                *)
(***************************************************************************)
\* e goes behind every element the comparator does not put after it.
RECURSIVE InsertByPriority(_, _)
InsertByPriority(sorted, e) ==
    IF sorted = << >> THEN << e >>
    ELSE IF Head(sorted).priority - e.priority > 0
         THEN << e >> \o sorted
         ELSE << Head(sorted) >> \o InsertByPriority(Tail(sorted), e)

\* The manifest order is kept: no sort.
SortByPriorityNone(components) == components

\* Array.prototype.sort with (a, b) => a.priority - b.priority: a stable sort.
RECURSIVE SortByPriority(_)
SortByPriority(components) ==
    IF components = << >> THEN << >>
    ELSE InsertByPriority(
             SortByPriority(SubSeq(components, 1, Len(components) - 1)),
             components[Len(components)])

\* No truncation.
Slice0All(s, end) == s

\* Array.prototype.slice(0, end): a negative end counts from the back.
Slice0(s, end) ==
    LET to == IF end < 0
              THEN (IF Len(s) + end < 0 THEN 0 ELSE Len(s) + end)
              ELSE (IF end > Len(s) THEN Len(s) ELSE end)
    IN  SubSeq(s, 1, to)

SortedComponents(components, max) == Slice0(SortByPriority(components), max)

(***************************************************************************)
(* createComponent, lines 200-235: the host container instantiates.        *)
(***************************************************************************)
\* What the host container does with one instantiation: it succeeds, it
\* rejects it (container.createComponent throws), or the widget's first
\* change detection throws after the widget has been mounted.
Outcomes == {"ok", "hostReject", "refreshThrow"}

\* What an error thrown by createComponent carries (nothing thrown).
NoThrown == [ requestedType |-> "none", host |-> "none", cause |-> "none" ]

\* The error the host container (or the widget's first change detection)
\* throws: it knows the failure, not the type the registry was asked for nor
\* the container as the registry's argument.
HostError(cause) == [ NoThrown EXCEPT !.cause = cause ]

\* `catch (error) { throw error; }` of lines 231-233.
Rethrow(error) == error

NoResult ==
    [ ok |-> FALSE, componentRef |-> 0, metadata |-> NoMetadata,
      wasOriginalType |-> FALSE, actualType |-> "none", cause |-> "none",
      lookups |-> 0, thrown |-> NoThrown ]

\* A hook the widget defines is replaced by the registry's stub.
RegistryHook(hook) == IF hook # "unset" THEN "registry" ELSE "unset"

\* The entry a bridge of the renderer closes over (none yet).
NoEntry == [ id |-> "none", type |-> "none" ]

\* initAgui: the _agui field of this.data when the widget's ngOnInit runs, in
\* the detectChanges of line 221, on the payload assigned at line 205.
NewInstance(componentClass, data) ==
    [ componentClass |-> componentClass, data |-> data,
      initAgui |-> data.agui,
      onDataChange |-> RegistryHook(ClassHooks(componentClass)),
      onInteraction |-> RegistryHook(ClassHooks(componentClass)),
      bridgedFor |-> NoEntry, copying |-> FALSE ]

\* The widget's ngOnInit, run by the first detectChanges, on this.data.
\* ChecklistComponent.initializeComponent writes the number of completed
\* items into data.completed (updateCompletionStats); the other classes of
\* the model assign nothing to their data.
WidgetInit(componentClass, data) ==
    IF componentClass = "ChecklistComponent"
    THEN [ data EXCEPT !.completed = data.items ]
    ELSE data

\* The result, the container and the instances afterwards, and the payload
\* object afterwards: line 205 hands the widget the payload object itself, so
\* what the widget's ngOnInit writes to this.data is written to it.  A
\* detectChanges that throws does so before the widget has written.
CreateComponent(map, cont, insts, type, data, outcome) ==
    LET r == ResolveComponent(map, type)
        ref == Len(insts) + 1
        inst == NewInstance(r.metadata.componentClass, data)
        initialized == WidgetInit(r.metadata.componentClass, data)
        failed(cause) == [ NoResult EXCEPT !.cause = cause, !.lookups = r.lookups,
                                           !.thrown = Rethrow(HostError(cause)) ]
    IN  IF ~r.found
        THEN [ result |-> failed("configuration"), container |-> cont,
               instances |-> insts, data |-> data ]
        ELSE IF outcome = "hostReject"
        THEN [ result |-> failed("hostReject"), container |-> cont,
               instances |-> insts, data |-> data ]
        ELSE IF outcome = "refreshThrow"
        THEN [ result |-> failed("refreshThrow"),
               container |-> Append(cont, ref),
               instances |-> Append(insts, inst), data |-> data ]
        ELSE [ result |->
                   [ ok |-> TRUE, componentRef |-> ref, metadata |-> r.metadata,
                     wasOriginalType |-> r.wasOriginalType,
                     actualType |-> r.actualType, cause |-> "none",
                     lookups |-> r.lookups, thrown |-> NoThrown ],
               container |-> Append(cont, ref),
               instances |-> Append(insts, [ inst EXCEPT !.data = initialized ]),
               data |-> initialized ]

(***************************************************************************)
(* DynamicRendererComponent: statistics, metadata, event bridges, cleanup  *)
(***************************************************************************)
EmptyCounts == [ k \in {} |-> 0 ]

\* resetRenderStats
FreshRenderStats ==
    [ totalComponents |-> 0, componentsByType |-> EmptyCounts,
      componentsByCategory |-> EmptyCounts, renderTime |-> 0,
      fallbacksUsed |-> 0 ]

\* counts[key] = (counts[key] || 0) + 1
Increment(counts, key) ==
    MapSet(counts, key, (IF key \in DOMAIN counts THEN counts[key] ELSE 0) + 1)

\* The instance is counted under the type the manifest asked for.
UpdateRenderStatsByRequested(stats, aguiComponent, result) ==
    [ stats EXCEPT
        !.totalComponents = @ + 1,
        !.componentsByType = Increment(@, aguiComponent.type),
        !.componentsByCategory = Increment(@, aguiComponent.category),
        !.fallbacksUsed = IF ~result.wasOriginalType THEN @ + 1 ELSE @ ]

\* The fallback counter is never touched.
UpdateRenderStatsNoFallback(stats, aguiComponent, result) ==
    [ stats EXCEPT
        !.totalComponents = @ + 1,
        !.componentsByType = Increment(@, result.actualType),
        !.componentsByCategory = Increment(@, aguiComponent.category) ]

\* The instance is not counted under its category.
UpdateRenderStatsNoCategory(stats, aguiComponent, result) ==
    [ stats EXCEPT
        !.totalComponents = @ + 1,
        !.componentsByType = Increment(@, result.actualType),
        !.fallbacksUsed = IF ~result.wasOriginalType THEN @ + 1 ELSE @ ]

UpdateRenderStats(stats, aguiComponent, result) ==
    [ stats EXCEPT
        !.totalComponents = @ + 1,
        !.componentsByType = Increment(@, result.actualType),
        !.componentsByCategory = Increment(@, aguiComponent.category),
        !.fallbacksUsed = IF ~result.wasOriginalType THEN @ + 1 ELSE @ ]

\* The context is spread first: an _agui field of the payload wins.
SetupComponentMetadataPayloadWins(instance, aguiComponent) ==
    [ instance EXCEPT !.data =
        [ aguiComponent.data EXCEPT !.agui =
            IF @ # NoAgui THEN @
            ELSE [ id |-> aguiComponent.id, type |-> aguiComponent.type,
                   title |-> aguiComponent.title,
                   priority |-> aguiComponent.priority,
                   category |-> aguiComponent.category,
                   spec |-> aguiComponent.agui_spec ] ] ]

\* instance.data = { ...aguiComponent.data, _agui: {...} }
SetupComponentMetadata(instance, aguiComponent) ==
    [ instance EXCEPT !.data =
        [ aguiComponent.data EXCEPT !.agui =
            [ id |-> aguiComponent.id, type |-> aguiComponent.type,
              title |-> aguiComponent.title,
              priority |-> aguiComponent.priority,
              category |-> aguiComponent.category,
              spec |-> aguiComponent.agui_spec ] ] ]

\* A hook that is set is replaced by the renderer's bridge.
BridgeHook(hook) == IF hook # "unset" THEN "bridge" ELSE "unset"

\* The bridges close over aguiComponent.
SetupComponentEventHandlers(instance, aguiComponent) ==
    [ instance EXCEPT
        !.onDataChange = BridgeHook(@),
        !.onInteraction = BridgeHook(@),
        !.bridgedFor =
            IF instance.onDataChange # "unset" \/ instance.onInteraction # "unset"
            THEN [ id |-> aguiComponent.id, type |-> aguiComponent.type ]
            ELSE @ ]

\* destroy is a method of every ComponentRef, so componentRef.destroy is
\* truthy and the test `componentRef && !componentRef.destroy` never passes.
ComponentRefHasDestroy == TRUE

\* dynamicContainer.clear() is left out.
DestroyAllComponentsNoClear(cont, created) ==
    [ createdComponents |-> << >>, container |-> cont ]

\* `this.createdComponents = []` is left out.
DestroyAllComponentsKeepsArray(cont, created) ==
    [ createdComponents |-> created, container |-> << >> ]

\* The views destroyAllComponents leaves in the container, and the new
\* createdComponents: the loop of lines 377-381, then dynamicContainer.clear().
DestroyAllComponents(cont, created) ==
    LET destroyedByLoop ==
            { created[i] : i \in { j \in 1..Len(created) : ~ComponentRefHasDestroy } }
        afterLoop == SelectSeq(cont, LAMBDA v : v \notin destroyedByLoop)
        cleared == SelectSeq(afterLoop, LAMBDA v : FALSE)
    IN  [ createdComponents |-> << >>, container |-> cleared ]

\* getComponentById: the first managed reference whose data._agui.id matches
\* (0: null).
GetComponentById(componentId) ==
    LET hits == { i \in 1..Len(createdComponents) :
                    instances[createdComponents[i]].data.agui.id = componentId }
    IN  IF hits = {} THEN 0
        ELSE createdComponents[CHOOSE i \in hits : \A j \in hits : i <= j]

\* getComponentsByType: the managed references whose data._agui.type matches.
GetComponentsByType(componentType) ==
    SelectSeq(createdComponents,
              LAMBDA ref : instances[ref].data.agui.type = componentType)

\* hasComponents
HasComponents == Len(createdComponents) > 0

(***************************************************************************)
(* Invocations of renderComponents                                         *)
(***************************************************************************)
NoError == [ id |-> "none", type |-> "none", cause |-> "none" ]

\* One invocation of renderComponents (or, call = "clearComponents", one
\* call of clearComponents by the host).  pc: where it is suspended ("awaitCreate": inside
\* renderSingleComponent, at the await of createComponent; "awaitSingle": in
\* the loop of renderComponents, at the await of renderSingleComponent).
\* components, cap, attempted, made, actual, disturbed and overlapped record
\* what the invocation was given, the ids of the entries it asked the registry
\* to create, the references it pushed and the actualType of each, whether a
\* cleanup ran after it started,
\* and whether an earlier invocation was still suspended when it started;
\* live says that the message object it read is still the one bound to
\* aguiMessage, startTime is the clock at its call, origin is the method that
\* made the call (kept until the next cleanup); snapshot is the object the
\* invocation has published on renderComplete, as it reads now, and aliased
\* says that its nested count objects are still those of this.renderStats;
\* sorted and result are locals, gone when the invocation has returned.
NewPass(components, cap, origin) ==
    [ call |-> "renderComponents", origin |-> origin, pc |-> "done",
      components |-> components,
      cap |-> cap, sorted |-> << >>, k |-> 0,
      result |-> NoResult, error |-> NoError, outcome |-> "cleared",
      attempted |-> << >>, made |-> << >>, actual |-> << >>,
      disturbed |-> FALSE,
      overlapped |-> microtasks # << >>,
      live |-> TRUE, startTime |-> now,
      snapshot |-> FreshRenderStats, aliased |-> FALSE ]

Disturb(ps) ==
    [ i \in 1..Len(ps) |->
        [ ps[i] EXCEPT !.disturbed = TRUE, !.origin = "earlier" ] ]

\* resetRenderStats assigns a new object with new count objects: no published
\* snapshot shares anything with this.renderStats any more.
Detach(ps) == [ i \in 1..Len(ps) |-> [ ps[i] EXCEPT !.aliased = FALSE ] ]

\* `{ ...this.renderStats }` copies the numbers and shares componentsByType
\* and componentsByCategory: what updateRenderStats writes into them
\* afterwards is read through every snapshot that shares them.
Share(ps, stats) ==
    [ i \in 1..Len(ps) |->
        IF ps[i].aliased
        THEN [ ps[i] EXCEPT
                 !.snapshot.componentsByType = stats.componentsByType,
                 !.snapshot.componentsByCategory = stats.componentsByCategory ]
        ELSE ps[i] ]

\* The snapshot is a deep copy: it shares nothing.
PublishDeep(pass, stats) == [ pass EXCEPT !.snapshot = stats, !.aliased = FALSE ]

\* renderComplete.emit({ ...this.renderStats }) of line 208.
Publish(pass, stats) == [ pass EXCEPT !.snapshot = stats, !.aliased = TRUE ]

\* The host has bound another message object (rebound), or not.
Unbind(ps, rebound) ==
    [ i \in 1..Len(ps) |-> [ ps[i] EXCEPT !.live = @ /\ ~rebound ] ]

CompleteEvent(p, stats) ==
    [ stream |-> "renderComplete", pass |-> p, stats |-> stats, error |-> NoError ]

\* The catch publishes on renderComplete.
ErrorEventAsComplete(p, error) ==
    [ stream |-> "renderComplete", pass |-> p, stats |-> FreshRenderStats,
      error |-> error ]

ErrorEvent(p, error) ==
    [ stream |-> "renderError", pass |-> p, stats |-> FreshRenderStats,
      error |-> error ]

\* The finally of lines 213-215 is left out: isRendering stays set.
IsRenderingLeftSet == TRUE

\* The finally of lines 213-215: this.isRendering = false.
IsRenderingAfterFinally == FALSE

\* The outcomes the host container may still produce.
AllowedOutcomes == IF failures < MaxFailures THEN Outcomes ELSE {"ok"}

\* endTime - startTime of two readings of performance.now(), a clock that
\* does not go back: nothing (0) or something (1).
ElapsedTimes == {0, 1}

\* renderComponents from its call to its first suspension (or to its end),
\* called by origin and reading the message msg, which the host has just
\* bound (rebound) or which was bound before.
RenderComponents(msg, max, origin) ==
    LET p == Len(passes) + 1
        rebound == origin \in {"ngOnInit", "ngOnChanges"}
        gone == DestroyAllComponents(container, createdComponents)
    IN
    /\ Len(passes) < MaxPasses
    /\ IF ~msg.present \/ ~msg.hasComponents
       THEN \* clearComponents(); return
            /\ createdComponents' = gone.createdComponents
            /\ container' = gone.container
            /\ renderStats' = FreshRenderStats
            /\ passes' = Append(Detach(Unbind(Disturb(passes), rebound)),
                                NewPass(<< >>, max, origin))
            /\ aguiMessage' = msg
            /\ UNCHANGED << instances, isRendering, renderErrorMessage, emitted,
                            microtasks, failures >>
       ELSE LET sorted == SortedComponents(msg.components, max) IN
            /\ renderErrorMessage' = NoError
            /\ IF sorted = << >>
               THEN \* no entry: the loop body never runs, nothing is awaited
                    \E elapsed \in ElapsedTimes :
                    LET stats == [ FreshRenderStats EXCEPT
                                     !.renderTime = elapsed ] IN
                    /\ createdComponents' = gone.createdComponents
                    /\ container' = gone.container
                    /\ renderStats' = stats
                    /\ emitted' = Append(emitted, CompleteEvent(p, stats))
                    /\ isRendering' = IsRenderingAfterFinally
                    /\ passes' = Append(Detach(Unbind(Disturb(passes), rebound)),
                           Publish([ NewPass(msg.components, max, origin) EXCEPT
                                       !.outcome = "complete" ], stats))
                    /\ aguiMessage' = msg
                    /\ UNCHANGED << instances, microtasks, failures >>
               ELSE \E outcome \in AllowedOutcomes :
                    LET made == CreateComponent(componentRegistry, gone.container,
                                    instances, sorted[1].type, sorted[1].data,
                                    outcome) IN
                    /\ createdComponents' = gone.createdComponents
                    /\ container' = made.container
                    /\ instances' = made.instances
                    /\ renderStats' = FreshRenderStats
                    /\ isRendering' = TRUE
                    /\ failures' = IF made.result.cause \in {"hostReject", "refreshThrow"}
                                   THEN failures + 1 ELSE failures
                    /\ passes' = Append(Detach(Unbind(Disturb(passes), rebound)),
                           [ NewPass(msg.components, max, origin) EXCEPT
                               !.pc = "awaitCreate",
                               !.sorted = WithPayload(sorted, sorted[1].id, made.data),
                               !.k = 1,
                               !.result = made.result, !.outcome = "none",
                               !.attempted = << sorted[1].id >> ])
                    /\ aguiMessage' =
                           [ msg EXCEPT !.components =
                               WithPayload(@, sorted[1].id, made.data) ]
                    /\ microtasks' = Append(microtasks, p)
                    /\ UNCHANGED emitted

\* The error only says that rendering failed.
RenderFailureAnonymous(aguiComponent, cause) ==
    [ id |-> "unknown", type |-> "unknown", cause |-> cause ]

\* The Error of line 247: its message is made of the entry's id, the entry's
\* type and the error that was caught.
RenderFailure(aguiComponent, cause) ==
    [ id |-> aguiComponent.id, type |-> aguiComponent.type, cause |-> cause ]

\* renderSingleComponent resumed after `await createComponent(...)`:
\* lines 233-243, or the catch of lines 245-248.
ResumeRenderSingle ==
    /\ microtasks # << >>
    /\ LET p == Head(microtasks)
           pass == passes[p]
           aguiComponent == pass.sorted[pass.k]
           ref == pass.result.componentRef
       IN
       /\ pass.pc = "awaitCreate"
       /\ microtasks' = Append(Tail(microtasks), p)
       /\ IF pass.result.ok
          THEN /\ createdComponents' = Append(createdComponents, ref)
               /\ instances' = [ instances EXCEPT ![ref] =
                      SetupComponentEventHandlers(
                          SetupComponentMetadata(@, aguiComponent),
                          aguiComponent) ]
               /\ renderStats' =
                      UpdateRenderStats(renderStats, aguiComponent, pass.result)
               /\ passes' = Share([ passes EXCEPT ![p] =
                      [ @ EXCEPT !.pc = "awaitSingle",
                                 !.made = Append(@, ref),
                                 !.actual = Append(@, pass.result.actualType) ] ],
                      UpdateRenderStats(renderStats, aguiComponent, pass.result))
          ELSE /\ passes' = [ passes EXCEPT ![p] =
                      [ @ EXCEPT !.pc = "awaitSingle",
                                 !.error = RenderFailure(aguiComponent,
                                                         pass.result.cause) ] ]
               /\ UNCHANGED << createdComponents, instances, renderStats >>
    /\ UNCHANGED << componentRegistry, aguiMessage, maxComponents, lifecycle,
                    container, isRendering, renderErrorMessage, emitted, failures,
                    regOps >>
    /\ UNCHANGED hostVars

\* The failure is only logged, and the loop goes on to the next entry.
AbortsBatchNever(error) == FALSE

\* The catch of renderSingleComponent rethrows, so a failed creation rejects
\* the awaited promise and the loop of renderComponents is left.
AbortsBatch(error) == error # NoError

\* renderComponents resumed after `await renderSingleComponent(...)`: the
\* catch and finally of lines 210-215, the next turn of the loop of lines
\* 199-201, or the end of lines 203-208 and 213-215.
ResumeRenderComponents ==
    /\ microtasks # << >>
    /\ LET p == Head(microtasks)
           pass == passes[p]
       IN
       /\ pass.pc = "awaitSingle"
       /\ IF AbortsBatch(pass.error)
          THEN /\ renderErrorMessage' = pass.error
               /\ emitted' = Append(emitted, ErrorEvent(p, pass.error))
               /\ isRendering' = IsRenderingAfterFinally
               /\ passes' = [ passes EXCEPT ![p] =
                      [ @ EXCEPT !.pc = "done", !.outcome = "error",
                                 !.sorted = << >>, !.result = NoResult ] ]
               /\ microtasks' = Tail(microtasks)
               /\ UNCHANGED << container, instances, renderStats, failures,
                               aguiMessage >>
          ELSE IF pass.k < Len(pass.sorted)
          THEN \E outcome \in AllowedOutcomes :
               LET next == pass.sorted[pass.k + 1]
                   made == CreateComponent(componentRegistry, container,
                               instances, next.type, next.data, outcome) IN
               /\ container' = made.container
               /\ instances' = made.instances
               /\ failures' = IF made.result.cause \in {"hostReject", "refreshThrow"}
                              THEN failures + 1 ELSE failures
               /\ passes' = [ passes EXCEPT ![p] =
                      [ @ EXCEPT !.pc = "awaitCreate", !.k = @ + 1,
                                 !.sorted = WithPayload(@, next.id, made.data),
                                 !.result = made.result,
                                 !.attempted = Append(@, next.id) ] ]
               /\ aguiMessage' =
                      IF pass.live
                      THEN [ aguiMessage EXCEPT !.components =
                               WithPayload(@, next.id, made.data) ]
                      ELSE aguiMessage
               /\ microtasks' = Append(Tail(microtasks), p)
               /\ UNCHANGED << renderStats, isRendering, renderErrorMessage,
                               emitted >>
          ELSE \E elapsed \in ElapsedTimes :
               LET stats == [ renderStats EXCEPT !.renderTime = elapsed ] IN
               /\ renderStats' = stats
               /\ emitted' = Append(emitted, CompleteEvent(p, stats))
               /\ isRendering' = IsRenderingAfterFinally
               /\ passes' = [ passes EXCEPT ![p] =
                      Publish([ @ EXCEPT !.pc = "done", !.outcome = "complete",
                                         !.sorted = << >>, !.result = NoResult ],
                              stats) ]
               /\ microtasks' = Tail(microtasks)
               /\ UNCHANGED << container, instances, renderErrorMessage, failures,
                               aguiMessage >>
    /\ UNCHANGED << componentRegistry, maxComponents, lifecycle,
                    createdComponents, regOps >>
    /\ UNCHANGED hostVars

(***************************************************************************)
(* The host: Angular lifecycle hooks and the public methods                *)
(***************************************************************************)
\* The first binding of the inputs (ngOnChanges with firstChange: no render),
\* then ngOnInit.
NgOnInit(msg, max) ==
    /\ lifecycle = "constructed"
    /\ lifecycle' = "initialized"
    /\ maxComponents' = max
    /\ IF msg.present
       THEN RenderComponents(msg, max, "ngOnInit")
       ELSE /\ aguiMessage' = msg
            /\ UNCHANGED << container, instances, createdComponents, renderStats,
                            isRendering, renderErrorMessage, emitted, passes,
                            microtasks, failures >>
    /\ UNCHANGED << componentRegistry, regOps >>
    /\ UNCHANGED hostVars

\* The host binds another message: ngOnChanges with changes['aguiMessage'].
NgOnChanges(msg) ==
    /\ lifecycle = "initialized"
    /\ msg # aguiMessage
    /\ RenderComponents(msg, maxComponents, "ngOnChanges")
    /\ UNCHANGED << componentRegistry, maxComponents, lifecycle, regOps >>
    /\ UNCHANGED hostVars

RetryRender ==
    /\ lifecycle = "initialized"
    /\ aguiMessage.present
    /\ RenderComponents(aguiMessage, maxComponents, "retryRender")
    /\ UNCHANGED << componentRegistry, maxComponents, lifecycle, regOps >>
    /\ UNCHANGED hostVars

\* renderComponents called by the host itself (the method is public).
CallRenderComponents ==
    /\ lifecycle = "initialized"
    /\ RenderComponents(aguiMessage, maxComponents, "renderComponents")
    /\ UNCHANGED << componentRegistry, maxComponents, lifecycle, regOps >>
    /\ UNCHANGED hostVars

\* clearComponents called by the host.
ClearComponents ==
    LET gone == DestroyAllComponents(container, createdComponents) IN
    /\ lifecycle = "initialized"
    /\ Len(passes) < MaxPasses
    /\ createdComponents' = gone.createdComponents
    /\ container' = gone.container
    /\ renderStats' = FreshRenderStats
    /\ passes' = Append(Detach(Disturb(passes)),
                        [ NewPass(<< >>, maxComponents, "clearComponents") EXCEPT
                            !.call = "clearComponents" ])
    /\ UNCHANGED << componentRegistry, aguiMessage, maxComponents, lifecycle,
                    instances, isRendering, renderErrorMessage, emitted,
                    microtasks, failures, regOps >>
    /\ UNCHANGED hostVars

NgOnDestroy ==
    LET gone == DestroyAllComponents(container, createdComponents) IN
    /\ lifecycle = "initialized"
    /\ lifecycle' = "destroyed"
    /\ createdComponents' = gone.createdComponents
    /\ container' = gone.container
    /\ passes' = Disturb(passes)
    /\ UNCHANGED << componentRegistry, aguiMessage, maxComponents, instances,
                    renderStats, isRendering, renderErrorMessage, emitted,
                    microtasks, failures, regOps >>
    /\ UNCHANGED hostVars

(***************************************************************************)
(* The widgets: user events reach a mounted widget, which calls its hooks  *)
(***************************************************************************)
\* The pass that took up instance ref (0: none did).
OwnerOf(ref) ==
    LET owners == { p \in 1..Len(passes) :
                      \E j \in 1..Len(passes[p].made) : passes[p].made[j] = ref }
    IN  IF owners = {} THEN 0 ELSE CHOOSE p \in owners : TRUE

\* The argument a widget passes to onInteraction: emitInteraction builds
\* { type, ...eventData }; "none": the widget gave no type (undefined), "":
\* it gave the empty string.
InteractionArgs ==
    { [ type |-> "click", payload |-> "payload" ],
      [ type |-> "", payload |-> "payload" ],
      [ type |-> "none", payload |-> "payload" ] }

\* The values `||` takes for false, among those of the model.
Falsy(value) == value \in {"none", ""}

\* The type is forwarded as it is, supplied or not.
InteractionBridgeNoDefault(instance, eventData) ==
    [ componentId |-> instance.bridgedFor.id,
      componentType |-> instance.bridgedFor.type,
      eventType |-> eventData.type,
      eventData |-> eventData, timestamp |-> now ]

\* Every event is published as a plain 'interaction'.
InteractionBridgeUntyped(instance, eventData) ==
    [ componentId |-> instance.bridgedFor.id,
      componentType |-> instance.bridgedFor.type,
      eventType |-> "interaction",
      eventData |-> eventData, timestamp |-> now ]

\* The event the interaction bridge of lines 316-331 publishes.
InteractionBridge(instance, eventData) ==
    [ componentId |-> instance.bridgedFor.id,
      componentType |-> instance.bridgedFor.type,
      eventType |-> IF ~Falsy(eventData.type) THEN eventData.type
                    ELSE "interaction",
      eventData |-> eventData, timestamp |-> now ]

\* The event the data-change bridge of lines 296-311 publishes;
\* instance.data is read when the widget calls.
DataChangeBridge(instance, newData) ==
    [ componentId |-> instance.bridgedFor.id,
      componentType |-> instance.bridgedFor.type,
      oldData |-> instance.data, newData |-> newData, timestamp |-> now ]

\* What the data-change bridge leaves in instance.data: it assigns nothing.
DataAfterBridge(instance, newData) == instance.data

\* A user event is a task of its own: it runs when no microtask is left, on
\* a widget whose view is in the container.
UserEventOn(ref) ==
    /\ lifecycle = "initialized"
    /\ microtasks = << >>
    /\ ref \in Range(container)

\* The record of one call of a hook: the hook, the widget, what the hook was
\* (the registry's stub or the renderer's bridge), the argument, the widget's
\* data before the widget's handler ran and when the hook returned.
Invocation(hook, ref, via, arg, before, afterHook) ==
    [ hook |-> hook, ref |-> ref, via |-> via, arg |-> arg,
      before |-> before, afterHook |-> afterHook ]

\* A widget's emitInteraction on a user event that changes no data (as
\* MetricsGridComponent.toggleExpanded):
\* `if (this.onInteraction) { this.onInteraction({...}) }`.
WidgetInteraction(ref, eventData) ==
    LET instance == instances[ref] IN
    /\ UserEventOn(ref)
    /\ Len(invocations) < MaxInvocations
    /\ instance.onInteraction # "unset"
    /\ invocations' = Append(invocations,
           Invocation("onInteraction", ref, instance.onInteraction, eventData,
                      instance.data, instance.data))
    /\ componentInteraction' =
           IF instance.onInteraction = "bridge"
           THEN Append(componentInteraction, InteractionBridge(instance, eventData))
           ELSE componentInteraction
    /\ UNCHANGED << componentRegistry, aguiMessage, maxComponents, lifecycle,
                    container, instances, createdComponents, renderStats,
                    isRendering, renderErrorMessage, emitted, passes, microtasks,
                    failures, regOps, now, componentDataChange >>

\* The ways the widgets of the repository change their data: in place, as
\* ChecklistComponent.toggleItemCompletion does (the item and the counters
\* are written, then onDataChange(this.data) is called), or on a copy, as
\* MetricsGridComponent.changeLayoutMode does (newData = {...this.data, ...},
\* onDataChange(newData), then this.data = newData).
ChangeStyles == {"inPlace", "copy"}

\* The widget's data after its change.
ChangedData(data, style) ==
    IF style = "inPlace"
    THEN [ data EXCEPT !.items = 1 - @, !.completed = 1 - data.items ]
    ELSE [ data EXCEPT !.content = @ \o "'" ]

\* The interaction a data-changing handler reports after the change.
ChangeReport(style) ==
    [ type |-> IF style = "inPlace" THEN "item_toggled" ELSE "layout_changed",
      payload |-> "payload" ]

\* A data-changing handler of a widget whose class defines the hooks: the
\* widget changes its data, calls
\* `if (this.onDataChange) { this.onDataChange(newData) }` and then reports
\* the interaction.  An in-place change of an item is a change of the items
\* array, which the widget's data shares with the manifest entry the widget
\* was made for.
WidgetDataChange(ref, style) ==
    LET instance == instances[ref]
        newData == ChangedData(instance.data, style)
        atCall == IF style = "inPlace" THEN [ instance EXCEPT !.data = newData ]
                  ELSE instance
        bridgedCall == instance.onDataChange = "bridge"
        afterHook == IF bridgedCall THEN DataAfterBridge(atCall, newData)
                     ELSE atCall.data
        changed == [ instance EXCEPT !.data = newData ]
        owner == OwnerOf(ref)
    IN
    /\ UserEventOn(ref)
    /\ Len(invocations) + 2 <= MaxInvocations
    /\ instance.onDataChange # "unset"
    /\ instance.onInteraction # "unset"
    /\ owner # 0
    /\ invocations' = invocations \o
           << Invocation("onDataChange", ref, instance.onDataChange, newData,
                         instance.data, afterHook),
              Invocation("onInteraction", ref, instance.onInteraction,
                         ChangeReport(style), newData, newData) >>
    /\ componentDataChange' =
           IF bridgedCall
           THEN Append(componentDataChange, DataChangeBridge(atCall, newData))
           ELSE componentDataChange
    /\ componentInteraction' =
           IF instance.onInteraction = "bridge"
           THEN Append(componentInteraction,
                       InteractionBridge(changed, ChangeReport(style)))
           ELSE componentInteraction
    /\ instances' = [ instances EXCEPT ![ref] = changed ]
    /\ aguiMessage' =
           IF style = "inPlace" /\ passes[owner].live
           THEN [ aguiMessage EXCEPT !.components =
                    [ i \in 1..Len(@) |->
                        IF @[i].id = instance.data.agui.id
                        THEN [ @[i] EXCEPT !.data.items = newData.items ]
                        ELSE @[i] ] ]
           ELSE aguiMessage
    /\ UNCHANGED << componentRegistry, maxComponents, lifecycle, container,
                    createdComponents, renderStats, isRendering,
                    renderErrorMessage, emitted, passes, microtasks, failures,
                    regOps, now >>

\* A handler that awaits before it reports (as
\* ChecklistComponent.copyChecklist, which awaits the clipboard): the user
\* event starts it on a mounted widget and it suspends.
WidgetCopyStart(ref) ==
    /\ UserEventOn(ref)
    /\ ~instances[ref].copying
    /\ instances' = [ instances EXCEPT ![ref].copying = TRUE ]
    /\ UNCHANGED << componentRegistry, aguiMessage, maxComponents, lifecycle,
                    container, createdComponents, renderStats, isRendering,
                    renderErrorMessage, emitted, passes, microtasks, failures,
                    regOps, hostVars >>

\* What the suspended handler passes to emitInteraction when it resumes.
CopiedArgs == [ type |-> "checklist_copied", payload |-> "payload" ]

\* The awaited promise settles and the handler resumes, whatever has become
\* of the widget's view meanwhile: emitInteraction('checklist_copied', ...).
WidgetCopyEnd(ref) ==
    LET instance == instances[ref] IN
    /\ instance.copying
    /\ microtasks = << >>
    /\ Len(invocations) < MaxInvocations
    /\ instances' = [ instances EXCEPT ![ref].copying = FALSE ]
    /\ invocations' =
           IF instance.onInteraction # "unset"
           THEN Append(invocations,
                    Invocation("onInteraction", ref, instance.onInteraction,
                               CopiedArgs, instance.data, instance.data))
           ELSE invocations
    /\ componentInteraction' =
           IF instance.onInteraction = "bridge"
           THEN Append(componentInteraction, InteractionBridge(instance, CopiedArgs))
           ELSE componentInteraction
    /\ UNCHANGED << componentRegistry, aguiMessage, maxComponents, lifecycle,
                    container, createdComponents, renderStats, isRendering,
                    renderErrorMessage, emitted, passes, microtasks, failures,
                    regOps, now, componentDataChange >>

\* The clock advances.
Tick ==
    /\ now < MaxClock
    /\ now' = now + 1
    /\ UNCHANGED << componentRegistry, aguiMessage, maxComponents, lifecycle,
                    container, instances, createdComponents, renderStats,
                    isRendering, renderErrorMessage, emitted, passes, microtasks,
                    failures, regOps, invocations, componentInteraction,
                    componentDataChange >>

(***************************************************************************)
(* The registry's administrative operations                                *)
(***************************************************************************)
RegisterComponent(type, componentClass, metadata) ==
    /\ regOps < MaxRegOps
    /\ regOps' = regOps + 1
    /\ componentRegistry' =
           RegisterInto(componentRegistry, type, componentClass, metadata)
    /\ UNCHANGED << aguiMessage, maxComponents, lifecycle, container, instances,
                    createdComponents, renderStats, isRendering,
                    renderErrorMessage, emitted, passes, microtasks,
                    failures >>
    /\ UNCHANGED hostVars

UnregisterComponent(type) ==
    /\ regOps < MaxRegOps
    /\ regOps' = regOps + 1
    /\ componentRegistry' = MapDelete(componentRegistry, type)
    /\ UNCHANGED << aguiMessage, maxComponents, lifecycle, container, instances,
                    createdComponents, renderStats, isRendering,
                    renderErrorMessage, emitted, passes, microtasks,
                    failures >>
    /\ UNCHANGED hostVars

ClearRegistry ==
    /\ regOps < MaxRegOps
    /\ regOps' = regOps + 1
    /\ componentRegistry' = EmptyMap
    /\ UNCHANGED << aguiMessage, maxComponents, lifecycle, container, instances,
                    createdComponents, renderStats, isRendering,
                    renderErrorMessage, emitted, passes, microtasks,
                    failures >>
    /\ UNCHANGED hostVars

(***************************************************************************)
(* Specifications                                                          *)
(***************************************************************************)
Init ==
    /\ componentRegistry = InitialRegistry
    /\ aguiMessage = NullMessage
    /\ maxComponents = DefaultMaxComponents
    /\ lifecycle = "constructed"
    /\ container = << >>
    /\ instances = << >>
    /\ createdComponents = << >>
    /\ renderStats = FreshRenderStats
    /\ isRendering = FALSE
    /\ renderErrorMessage = NoError
    /\ emitted = << >>
    /\ passes = << >>
    /\ microtasks = << >>
    /\ failures = 0
    /\ regOps = 0
    /\ now = 0
    /\ invocations = << >>
    /\ componentInteraction = << >>
    /\ componentDataChange = << >>

\* The renderer under its host, with the registry as constructed.
Next ==
    \/ \E msg \in Messages : \E max \in MaxComponentsInputs : NgOnInit(msg, max)
    \/ \E msg \in Messages : NgOnChanges(msg)
    \/ RetryRender
    \/ ClearComponents
    \/ NgOnDestroy
    \/ ResumeRenderSingle
    \/ ResumeRenderComponents

Spec == Init /\ [][Next]_vars

(***************************************************************************)
(* Ordering and truncation: one pass over any manifest of up to MaxEntries *)
(* entries with priorities up to MaxPriority, under any cap.               *)
(***************************************************************************)
EntryId(i) == "e" \o ToString(i)

OrderManifest(priorities) ==
    AGUIMessage("1.0", TRUE,
        [ i \in 1..Len(priorities) |->
            AGUIComponent(EntryId(i), "text_section", priorities[i],
                          IF i = 1 THEN "content" ELSE "action") ])

OrderMessages ==
    { OrderManifest(priorities) :
        priorities \in UNION { [ 1..n -> 1..MaxPriority ] : n \in 0..MaxEntries } }

OrderCaps == (-1)..MaxEntries \cup {DefaultMaxComponents}

NextOrder ==
    \/ \E msg \in OrderMessages : \E max \in OrderCaps : NgOnInit(msg, max)
    \/ ResumeRenderSingle
    \/ ResumeRenderComponents

SpecOrder == Init /\ [][NextOrder]_vars

(***************************************************************************)
(* The registry under its administrative operations: one pass over a       *)
(* manifest, while types are registered, unregistered and cleared.         *)
(***************************************************************************)
\* The registrations of the model: a class with hooks for a type that has no
\* mapping, the default registered again, a mapped type registered with a
\* fallbackType of its own, and a registered type overwritten.
Registrations ==
    { << "unknown_x", "HookedWidget", OmittedMetadata >>,
      << "text_section", "TextSectionComponent", TextSectionMetadata >>,
      << "data_table", "ChecklistComponent",
         [ ChecklistMetadata EXCEPT !.fallbackType = "checklist" ] >>,
      << "checklist", "HookedWidget", OmittedMetadata >> }

RegistryMessages ==
    { AGUIMessage("1.0", TRUE, << AGUIComponent("r1", type, 1, "content") >>) :
        type \in ComponentTypes } \cup { ManifestA, ManifestV }

NextRegistry ==
    \/ \E r \in Registrations : RegisterComponent(r[1], r[2], r[3])
    \/ \E type \in ComponentTypes : UnregisterComponent(type)
    \/ ClearRegistry
    \/ \E msg \in RegistryMessages : NgOnInit(msg, DefaultMaxComponents)
    \/ ResumeRenderSingle
    \/ ResumeRenderComponents

SpecRegistry == Init /\ [][NextRegistry]_vars

(***************************************************************************)
(* Every way of starting a pass, and the teardown: the lifecycle hooks,    *)
(* retryRender and renderComponents called by the host itself.             *)
(***************************************************************************)
CallMessages == { NullMessage, ManifestA, ManifestC }

NextCalls ==
    \/ \E msg \in CallMessages : NgOnInit(msg, DefaultMaxComponents)
    \/ \E msg \in CallMessages : NgOnChanges(msg)
    \/ RetryRender
    \/ CallRenderComponents
    \/ NgOnDestroy
    \/ ResumeRenderSingle
    \/ ResumeRenderComponents

SpecCalls == Init /\ [][NextCalls]_vars

(***************************************************************************)
(* The renderer under its host and the event loop: a microtask that is     *)
(* queued is run, since the event loop drains the microtask queue and every *)
(* creation has returned or thrown when its continuation is queued.         *)
(***************************************************************************)
RunMicrotask == ResumeRenderSingle \/ ResumeRenderComponents

LiveMessages == { ManifestA, ManifestB }

NextLive ==
    \/ \E msg \in LiveMessages : NgOnInit(msg, DefaultMaxComponents)
    \/ \E msg \in LiveMessages : NgOnChanges(msg)
    \/ RetryRender
    \/ RunMicrotask

SpecLive == Init /\ [][NextLive]_vars /\ WF_vars(RunMicrotask)

(***************************************************************************)
(* Widgets with hooks: classes that define onInteraction and onDataChange  *)
(* are registered, manifests are rendered, and users act on the widgets.   *)
(***************************************************************************)
HookRegistrations ==
    { << "text_section", "HookedWidget", OmittedMetadata >>,
      << "checklist", "HookedWidget", OmittedMetadata >> }

HookMessages == { ManifestA, ManifestB, ManifestC }

NextHooks ==
    \/ \E r \in HookRegistrations : RegisterComponent(r[1], r[2], r[3])
    \/ \E msg \in HookMessages : NgOnInit(msg, DefaultMaxComponents)
    \/ ResumeRenderSingle
    \/ ResumeRenderComponents
    \/ Tick
    \/ \E ref \in 1..Len(instances) : \E eventData \in InteractionArgs :
           WidgetInteraction(ref, eventData)
    \/ \E ref \in 1..Len(instances) : \E style \in ChangeStyles :
           WidgetDataChange(ref, style)

SpecHooks == Init /\ [][NextHooks]_vars

(***************************************************************************)
(* Widgets whose handlers report after an await, while the host clears and *)
(* renders again.                                                          *)
(***************************************************************************)
LateMessages == { ManifestC }

NextLate ==
    \/ \E r \in HookRegistrations : RegisterComponent(r[1], r[2], r[3])
    \/ \E msg \in LateMessages : NgOnInit(msg, DefaultMaxComponents)
    \/ RetryRender
    \/ ClearComponents
    \/ ResumeRenderSingle
    \/ ResumeRenderComponents
    \/ \E ref \in 1..Len(instances) : WidgetCopyStart(ref)
    \/ \E ref \in 1..Len(instances) : WidgetCopyEnd(ref)

SpecLate == Init /\ [][NextLate]_vars

(***************************************************************************)
(* Properties                                                              *)
(***************************************************************************)
PassIds == 1..Len(passes)

Ids(components) == { components[i].id : i \in 1..Len(components) }

\* A newer invocation of renderComponents has started after invocation p.
Superseded(p) ==
    \E q \in PassIds : q > p /\ passes[q].call = "renderComponents"

EventsOf(p) == { i \in 1..Len(emitted) : emitted[i].pass = p }

\* C1: once a newer invocation of renderComponents has started, a step of a
\* superseded invocation adds nothing to createdComponents, changes no field
\* of renderStats and publishes neither renderComplete nor renderError.
C1_SupersededPassHasNoEffect ==
    [][ \A p \in PassIds :
          (Superseded(p) /\ passes'[p].pc # passes[p].pc)
              => /\ createdComponents' = createdComponents
                 /\ renderStats' = renderStats
                 /\ emitted' = emitted ]_vars

\* C2: when a pass over manifest A and a later pass over manifest B have both
\* finished, getComponentById returns null for every id of A that is not an
\* id of B.
C2_EarlierIdsNotFound ==
    \A p \in PassIds : \A q \in PassIds :
        ( /\ p < q /\ q = Len(passes)
          /\ passes[p].call = "renderComponents"
          /\ passes[q].call = "renderComponents"
          /\ \A r \in PassIds : passes[r].pc = "done" )
        => \A id \in Ids(passes[p].components) \ Ids(passes[q].components) :
               GetComponentById(id) = 0

Before(components, x, y) ==
    \/ components[x].priority < components[y].priority
    \/ components[x].priority = components[y].priority /\ x < y

IndexOf(components, id) ==
    CHOOSE i \in 1..Len(components) : components[i].id = id

RECURSIVE SumCounts(_)
SumCounts(counts) ==
    IF DOMAIN counts = {} THEN 0
    ELSE LET key == CHOOSE k \in DOMAIN counts : TRUE
         IN  counts[key] + SumCounts([ k \in DOMAIN counts \ {key} |-> counts[k] ])

\* C4: the entries of a manifest are created in ascending order of priority,
\* entries of equal priority in their manifest order, and each instance made
\* belongs to the entry at its place in that order.
C4_CreationOrder ==
    \A p \in PassIds :
        LET pass == passes[p]
            at(i) == IndexOf(pass.components, pass.attempted[i])
        IN  /\ \A i \in 1..Len(pass.attempted) : \A j \in 1..Len(pass.attempted) :
                   i < j => Before(pass.components, at(i), at(j))
            /\ Len(pass.made) <= Len(pass.attempted)
            /\ \A i \in 1..Len(pass.made) :
                   instances[pass.made[i]].data.agui.id = pass.attempted[i]

\* C4 witness: priorities 2, 1, 1 have been created in the order e2, e3, e1.
C4_Witness ==
    \E p \in PassIds :
        /\ passes[p].outcome = "complete"
        /\ Len(passes[p].components) = 3
        /\ passes[p].components[1].priority = 2
        /\ passes[p].components[2].priority = 1
        /\ passes[p].components[3].priority = 1
        /\ passes[p].attempted = << "e2", "e3", "e1" >>
        /\ Len(passes[p].made) = 3

\* C5: with n entries and a cap m, 0 <= m < n, a successful pass creates
\* exactly the m entries that come first in the stable priority order; the
\* others are not created, not counted in the published statistics, and no
\* error is reported.
C5_Truncation ==
    \A p \in PassIds :
        LET pass == passes[p]
            n == Len(pass.components)
            m == pass.cap
            first == { pass.components[x].id : x \in
                        { x \in 1..n :
                            Cardinality({ y \in 1..n :
                                Before(pass.components, y, x) }) < m } }
        IN  (pass.outcome = "complete" /\ 0 <= m /\ m < n) =>
              /\ Len(pass.attempted) = m
              /\ Range(pass.attempted) = first
              /\ Len(pass.made) = m
              /\ ~pass.disturbed => Len(container) = m
              /\ pass.error = NoError
              /\ Cardinality(EventsOf(p)) = 1
              /\ \A i \in EventsOf(p) :
                     /\ emitted[i].stream = "renderComplete"
                     /\ emitted[i].stats.totalComponents = m
                     /\ SumCounts(emitted[i].stats.componentsByType) = m
                     /\ SumCounts(emitted[i].stats.componentsByCategory) = m
                     /\ emitted[i].stats.fallbacksUsed <= m

\* C5 witness: a pass over three entries under a cap of two has succeeded.
C5_Witness ==
    \E p \in PassIds :
        /\ passes[p].outcome = "complete"
        /\ Len(passes[p].components) = 3 /\ passes[p].cap = 2
        /\ passes[p].attempted = << "e3", "e1" >>
        /\ Len(container) = 2

\* C6: a call of renderComponents with a null manifest, with a manifest whose
\* components are absent or with an empty component list creates no instance,
\* leaves createdComponents empty and every field of renderStats zero or
\* empty, and publishes no renderError.
C6_EmptyManifestAllZero ==
    [][ ( /\ Len(passes') = Len(passes) + 1
          /\ passes'[Len(passes')].call = "renderComponents"
          /\ passes'[Len(passes')].components = << >> )
        => /\ instances' = instances
           /\ createdComponents' = << >>
           /\ container' = << >>
           /\ renderStats' = FreshRenderStats
           /\ \A i \in 1..Len(emitted') :
                  emitted'[i].pass = Len(passes') =>
                      emitted'[i].stream # "renderError" ]_vars

\* In this step invocation p has called createComponent for entry sorted[k].
CreationStep(p) ==
    /\ passes'[p].pc = "awaitCreate"
    /\ p <= Len(passes) => passes[p].pc = "awaitSingle"

\* In this step invocation p has taken up the instance createComponent made.
CommitStep(p) ==
    /\ p <= Len(passes)
    /\ passes[p].pc = "awaitCreate" /\ passes'[p].pc = "awaitSingle"
    /\ passes[p].result.ok

\* C7: createComponent for a type X that is not registered, whose fallback
\* mapping names a registered type Y, returns actualType = Y, wasOriginalType
\* = false and the metadata registered for Y, and the pass that asked for it
\* adds exactly 1 to fallbacksUsed for that entry.
C7_FallbackMapping ==
    [][ \A p \in 1..Len(passes') :
          /\ CreationStep(p) =>
               LET requested == passes'[p].sorted[passes'[p].k].type
                   mapped == FallbackMappings(requested)
                   result == passes'[p].result
               IN  ( /\ requested \notin DOMAIN componentRegistry
                     /\ mapped \in DOMAIN componentRegistry
                     /\ result.ok )
                   => /\ result.actualType = mapped
                      /\ ~result.wasOriginalType
                      /\ result.metadata = componentRegistry[mapped]
                      /\ instances'[result.componentRef].componentClass =
                             componentRegistry[mapped].componentClass
          /\ CommitStep(p) =>
               LET requested == passes[p].sorted[passes[p].k].type
                   result == passes[p].result
               IN  ( /\ result.actualType = FallbackMappings(requested)
                     /\ result.actualType # requested )
                   => renderStats'.fallbacksUsed = renderStats.fallbacksUsed + 1
      ]_vars

\* C7 witness: checklist has been unregistered, an entry of type checklist
\* has been created as text_section, and the pass has counted one fallback.
C7_Witness ==
    \E p \in PassIds :
        /\ passes[p].pc = "awaitSingle" /\ passes[p].result.ok
        /\ passes[p].sorted[passes[p].k].type = "checklist"
        /\ passes[p].result.actualType = "text_section"
        /\ ~passes[p].result.wasOriginalType
        /\ renderStats.fallbacksUsed = 1

\* C8: createComponent for a type that is not registered, whose fallback
\* target is not registered, while the default fallback is not registered
\* either, fails with the configuration error and creates no instance in the
\* host container.
C8_ConfigurationError ==
    [][ \A p \in 1..Len(passes') :
          CreationStep(p) =>
            LET requested == passes'[p].sorted[passes'[p].k].type
                mapped == FallbackMappings(requested)
                result == passes'[p].result
            IN  ( /\ requested \notin DOMAIN componentRegistry
                  /\ mapped \notin DOMAIN componentRegistry
                  /\ DEFAULT_FALLBACK \notin DOMAIN componentRegistry )
                => /\ ~result.ok
                   /\ result.cause = "configuration"
                   /\ instances' = instances
                   /\ Range(container') \subseteq Range(container) ]_vars

\* C8 witness: a creation has failed with the configuration error after the
\* registry was emptied.
C8_Witness ==
    \E p \in PassIds :
        /\ passes[p].pc = "awaitCreate"
        /\ passes[p].result.cause = "configuration"
        /\ componentRegistry = EmptyMap
        /\ instances = << >>

\* C9: createComponent reads the registry at most three times (the requested
\* type, its static fallback mapping, the default), instantiates one of these
\* three types, and instantiates a registered requested type verbatim:
\* actualType is the requested type and wasOriginalType is true.
C9_BoundedFallback ==
    [][ \A p \in 1..Len(passes') :
          CreationStep(p) =>
            LET requested == passes'[p].sorted[passes'[p].k].type
                result == passes'[p].result
            IN  /\ result.lookups <= 3
                /\ result.ok =>
                       result.actualType \in
                           { requested, FallbackMappings(requested),
                             DEFAULT_FALLBACK }
                /\ (requested \in DOMAIN componentRegistry /\ result.ok) =>
                       /\ result.actualType = requested
                       /\ result.wasOriginalType
                       /\ result.lookups = 1
                       /\ result.metadata = componentRegistry[requested]
                       /\ instances'[result.componentRef].componentClass =
                              componentRegistry[requested].componentClass
      ]_vars

\* C9 witness: data_table, registered with a fallbackType of its own, has
\* been instantiated verbatim.
C9_Witness ==
    \E p \in PassIds :
        /\ passes[p].pc = "awaitCreate" /\ passes[p].result.ok
        /\ passes[p].sorted[passes[p].k].type = "data_table"
        /\ passes[p].result.actualType = "data_table"
        /\ passes[p].result.wasOriginalType
        /\ passes[p].result.metadata.fallbackType = "checklist"

\* In this step destroyAllComponents has run.
CleanupStep ==
    \/ Len(passes') > Len(passes)
    \/ lifecycle = "initialized" /\ lifecycle' = "destroyed"

\* C10: destroyAllComponents empties createdComponents and leaves none of the
\* instances that were managed or mounted before it alive in the container.
C10_CleanupReleasesAll ==
    [][ CleanupStep =>
          /\ createdComponents' = << >>
          /\ \A ref \in Range(createdComponents) \cup Range(container) :
                 ref \notin Range(container') ]_vars

\* C10 witness: teardown has run over a managed, mounted instance.
C10_Witness ==
    \E p \in PassIds :
        /\ lifecycle = "destroyed"
        /\ passes[p].outcome = "complete" /\ passes[p].made # << >>
        /\ createdComponents = << >>
        /\ Range(passes[p].made) \cap Range(container) = {}

\* In this step clearComponents has run: called by the host, or by
\* renderComponents for a message without components.
ClearStep ==
    /\ Len(passes') = Len(passes) + 1
    /\ passes'[Len(passes')].outcome = "cleared"

\* In this step ngOnDestroy has run.
TeardownStep == lifecycle = "initialized" /\ lifecycle' = "destroyed"

\* C11: clearComponents and the destroyAllComponents of ngOnDestroy leave
\* nothing managed and nothing mounted and touch nothing but the managed set,
\* the container and (clearComponents) the statistics; run on the state a
\* cleanup has left, also when nothing was ever created, they change nothing.
C11_CleanupIdempotent ==
    [][ (ClearStep \/ TeardownStep) =>
          /\ createdComponents' = << >>
          /\ container' = << >>
          /\ ClearStep => renderStats' = FreshRenderStats
          /\ TeardownStep => renderStats' = renderStats
          /\ instances' = instances
          /\ emitted' = emitted
          /\ isRendering' = isRendering
          /\ renderErrorMessage' = renderErrorMessage
          /\ ( /\ createdComponents = << >>
               /\ container = << >>
               /\ ClearStep => renderStats = FreshRenderStats )
             => /\ createdComponents' = createdComponents
                /\ container' = container
                /\ renderStats' = renderStats ]_vars

\* C11 witness: a pass has created an instance, clearComponents has run, and
\* ngOnDestroy has run the cleanup again on what clearComponents left.
C11_Witness ==
    /\ Len(passes) = 2
    /\ passes[1].outcome = "complete" /\ passes[1].made # << >>
    /\ passes[2].call = "clearComponents"
    /\ lifecycle = "destroyed"
    /\ createdComponents = << >> /\ container = << >>
    /\ renderStats = FreshRenderStats

\* counts[key] || 0
CountOf(counts, key) == IF key \in DOMAIN counts THEN counts[key] ELSE 0

C17_ManifestNeverMutated ==
    \A p \in PassIds :
        LET pass == passes[p] IN
        /\ ( /\ pass.call = "renderComponents" /\ pass.outcome # "cleared"
             /\ pass.live )
           => aguiMessage.components = pass.components
        /\ \A k \in 1..Len(pass.sorted) :
               pass.sorted[k] \in Range(pass.components)

\* The manifest entry instance ref was made for: the entry of its pass that
\* was attempted when the instance was made.
EntryOf(ref) ==
    LET pass == passes[OwnerOf(ref)]
        j == CHOOSE j \in 1..Len(pass.made) : pass.made[j] = ref
    IN  CHOOSE entry \in Range(pass.components) : entry.id = pass.attempted[j]

\* The calls of hook that a step adds to the calls of the widgets the
\* renderer has made.
NewCalls(hook) ==
    { n \in (Len(invocations) + 1)..Len(invocations') :
        /\ invocations'[n].hook = hook
        /\ OwnerOf(invocations'[n].ref) # 0 }

\* C13: when a widget the renderer has made calls its interaction hook with
\* event data, exactly one event is published on componentInteraction; it
\* carries the id and the type of the manifest entry the widget was made for,
\* as eventType 'click' when the type of the event data is 'click', the event
\* data, and a timestamp not earlier than the start of the pass that made the
\* widget; nothing is published on componentDataChange for it.
C13_InteractionBridged ==
    [][ \A n \in NewCalls("onInteraction") :
          LET inv == invocations'[n]
              entry == EntryOf(inv.ref)
              event == componentInteraction'[Len(componentInteraction')]
          IN
          /\ Len(componentInteraction') = Len(componentInteraction) + 1
          /\ SubSeq(componentInteraction', 1, Len(componentInteraction))
                = componentInteraction
          /\ event.componentId = entry.id
          /\ event.componentType = entry.type
          /\ inv.arg.type = "click" => event.eventType = "click"
          /\ event.eventData = inv.arg
          /\ event.timestamp >= passes[OwnerOf(inv.ref)].startTime
          /\ Len(componentDataChange') - Len(componentDataChange)
                = Cardinality(NewCalls("onDataChange"))
      ]_vars

\* A widget made by a pass has reported a click after the clock advanced, and
\* the click has been published.
C13_Witness ==
    \E n \in 1..Len(invocations) :
        /\ invocations[n].hook = "onInteraction"
        /\ invocations[n].arg.type = "click"
        /\ OwnerOf(invocations[n].ref) # 0
        /\ \E e \in 1..Len(componentInteraction) :
               /\ componentInteraction[e].eventType = "click"
               /\ componentInteraction[e].timestamp
                     > passes[OwnerOf(invocations[n].ref)].startTime

\* C14: when a widget the renderer has made calls its data-change hook with
\* newData, exactly one event is published on componentDataChange; it carries
\* the id and the type of the widget's manifest entry, as oldData the payload
\* the widget had before the change, and as newData the value passed.
C14_DataChangeBridged ==
    [][ \A n \in NewCalls("onDataChange") :
          LET inv == invocations'[n]
              entry == EntryOf(inv.ref)
              event == componentDataChange'[Len(componentDataChange')]
          IN
          /\ Len(componentDataChange') = Len(componentDataChange) + 1
          /\ SubSeq(componentDataChange', 1, Len(componentDataChange))
                = componentDataChange
          /\ event.componentId = entry.id
          /\ event.componentType = entry.type
          /\ event.oldData = inv.before
          /\ event.newData = inv.arg
      ]_vars

\* C15: when the data-change bridge returns, the renderer's record of the
\* widget's payload (instance.data) is the newData it was called with,
\* whether or not the widget has assigned it.
C15_BridgeReplacesRecord ==
    \A n \in 1..Len(invocations) :
        ( /\ invocations[n].hook = "onDataChange"
          /\ invocations[n].via = "bridge" )
        => invocations[n].afterHook = invocations[n].arg

\* C16: a manifest whose version is not the supported one is invalid and is
\* skipped: the pass that reads it attempts no entry, makes no widget and
\* publishes no renderError.
C16_InvalidVersionSkipped ==
    \A p \in PassIds :
        ( /\ passes[p].call = "renderComponents"
          /\ passes[p].live
          /\ aguiMessage.present /\ aguiMessage.hasComponents
          /\ ~ValidateAguiMessage(aguiMessage) )
        => /\ passes[p].attempted = << >>
           /\ passes[p].made = << >>
           /\ \A i \in EventsOf(p) : emitted[i].stream # "renderError"

\* C18: every pass that has started and not yet returned eventually returns
\* with isRendering = false, whether it completes or fails, and a render
\* error is always followed by isRendering = false.
C18_PassEndsIdle ==
    /\ \A p \in 1..MaxPasses :
           (p <= Len(passes) /\ passes[p].call = "renderComponents"
               /\ passes[p].pc # "done")
           ~> (p <= Len(passes) /\ passes[p].pc = "done" /\ ~isRendering)
    /\ (renderErrorMessage # NoError) ~> ~isRendering

\* One pass has returned after a failure and another after completing, and
\* the renderer is idle.
C18_Witness ==
    /\ ~isRendering
    /\ \E p \in PassIds : passes[p].pc = "done" /\ passes[p].outcome = "error"
    /\ \E p \in PassIds : passes[p].pc = "done" /\ passes[p].outcome = "complete"

\* Invocation p returns from the catch of renderComponents.
FailureStep(p) ==
    /\ p <= Len(passes)
    /\ passes[p].pc # "done"
    /\ passes'[p].pc = "done"
    /\ passes'[p].outcome = "error"

C20_CreationErrorTyped ==
    \A p \in PassIds :
        LET pass == passes[p] IN
        ( /\ pass.pc = "awaitCreate"
          /\ pass.result.cause \in {"hostReject", "refreshThrow"} )
        => /\ ~pass.result.ok
           /\ pass.result.thrown.cause = pass.result.cause
           /\ pass.result.thrown.requestedType = pass.sorted[pass.k].type
           /\ pass.result.thrown.host = "dynamicContainer"

\* In this step invocation q of renderComponents starts.
StartStep(q) ==
    /\ Len(passes) = q - 1
    /\ Len(passes') = q
    /\ passes'[q].call = "renderComponents"

\* C21: whichever method starts a pass (ngOnInit, ngOnChanges, retryRender,
\* renderComponents itself), the cleanup has run when the pass makes its
\* first instance: nothing made before is managed or mounted, and the views
\* in the container are those the new pass has just made; ngOnDestroy leaves
\* nothing managed and nothing mounted.
C21_CleanupBeforeRender ==
    [][ /\ \A q \in 1..MaxPasses :
             StartStep(q) =>
               /\ createdComponents' = << >>
               /\ \A ref \in Range(container') : ref > Len(instances)
               /\ Len(container') <= 1
        /\ TeardownStep =>
               /\ createdComponents' = << >>
               /\ container' = << >>
      ]_vars

\* A pass started by a call of renderComponents itself has made an instance
\* after an earlier pass had made some, and none of the earlier ones is
\* mounted.
C21_Witness ==
    \E p \in PassIds : \E q \in PassIds :
        /\ p < q
        /\ passes[p].made # << >>
        /\ passes[q].origin = "renderComponents"
        /\ passes[q].made # << >>
        /\ Range(passes[p].made) \cap Range(container) = {}

\* C22: retryRender starts a pass only when a message is bound; the pass
\* reads the entries and the cap that are bound, attempts the first entry of
\* their sorted, truncated list after the cleanup, and the step changes
\* neither the message nor the cap.
C22_RetryRendersLastManifest ==
    [][ \A q \in 1..MaxPasses :
          (StartStep(q) /\ passes'[q].origin = "retryRender") =>
            LET sorted == SortedComponents(aguiMessage.components, maxComponents)
            IN
            /\ aguiMessage.present
            /\ passes'[q].components = aguiMessage.components
            /\ passes'[q].cap = maxComponents
            /\ createdComponents' = << >>
            /\ passes'[q].attempted =
                  IF sorted = << >> THEN << >> ELSE << sorted[1].id >>
            /\ [ k \in 1..Len(passes'[q].sorted) |-> passes'[q].sorted[k].id ]
                  = [ k \in 1..Len(passes'[q].sorted) |-> sorted[k].id ]
            /\ maxComponents' = maxComponents
            /\ aguiMessage' = aguiMessage
      ]_vars

\* C23: when a pass fails, no instance made by an earlier pass is managed or
\* mounted; the error it leaves in renderErrorMessage stays until a pass
\* starts (or fails), and the start of a pass clears it.
C23_FailedPassLeavesError ==
    [][ /\ \A q \in 1..MaxPasses :
             FailureStep(q) =>
               /\ renderErrorMessage' # NoError
               /\ \A p \in 1..(q - 1) :
                      Range(passes'[p].made)
                         \cap (Range(container') \cup Range(createdComponents'))
                      = {}
        /\ \A q \in 1..MaxPasses : StartStep(q) => renderErrorMessage' = NoError
        /\ ( /\ renderErrorMessage # NoError
             /\ \A q \in 1..MaxPasses : ~StartStep(q) /\ ~FailureStep(q) )
           => renderErrorMessage' = renderErrorMessage
      ]_vars

\* The type instance ref was instantiated as (result.actualType of its
\* creation).
ActualTypeOf(ref) ==
    LET pass == passes[OwnerOf(ref)]
        j == CHOOSE j \in 1..Len(pass.made) : pass.made[j] = ref
    IN  pass.actual[j]

\* C24: getComponentsByType(t) returns exactly the managed instances that
\* were instantiated as type t, whatever type their entry asked for.
C24_ByActualType ==
    \A t \in ComponentTypes :
        Range(GetComponentsByType(t))
          = { ref \in Range(createdComponents) : ActualTypeOf(ref) = t }

\* C25: registerComponent on any registry inserts or overwrites the entry of
\* its type with the class and the metadata it is given, a field left out
\* taking its default (requiresInteraction false, category 'general',
\* displayName the type); it changes no other entry, and registering the same
\* again changes nothing.
C25_RegisterIdempotent ==
    \A r \in Registrations :
        LET type == r[1]
            metadata == r[3]
            once == RegisterInto(componentRegistry, type, r[2], metadata)
            twice == RegisterInto(once, type, r[2], metadata)
        IN
        /\ twice = once
        /\ DOMAIN once = DOMAIN componentRegistry \cup {type}
        /\ \A k \in DOMAIN componentRegistry \ {type} :
               once[k] = componentRegistry[k]
        /\ once[type].componentClass = r[2]
        /\ once[type].requiresInteraction =
               IF metadata.requiresInteraction = "omitted" THEN FALSE
               ELSE metadata.requiresInteraction = "true"
        /\ once[type].category =
               IF metadata.category = "omitted" THEN "general"
               ELSE metadata.category
        /\ once[type].displayName =
               IF metadata.displayName = "omitted" THEN type
               ELSE metadata.displayName

\* The checklist type, registered by the constructor with its own class and
\* metadata, has been registered again with another class and no metadata,
\* and the entry of text_section is as the constructor left it.
C25_Witness ==
    /\ regOps = 2
    /\ "checklist" \in DOMAIN componentRegistry
    /\ componentRegistry["checklist"].componentClass = "HookedWidget"
    /\ componentRegistry["checklist"].category = "general"
    /\ componentRegistry["checklist"].displayName = "checklist"
    /\ ~componentRegistry["checklist"].requiresInteraction
    /\ "text_section" \in DOMAIN componentRegistry
    /\ componentRegistry["text_section"] = InitialRegistry["text_section"]

\* C26: a suspended pass has asked for its entries one after the other in
\* sorted order, the next one only when the one before had been made and
\* counted: the entries attempted are the first entries of the sorted list,
\* at most one of them is not yet taken up, and renderStats.totalComponents
\* is the number of instances the pass has made so far.
C26_SequentialCreation ==
    \A p \in PassIds :
        LET pass == passes[p] IN
        (pass.call = "renderComponents" /\ pass.pc # "done") =>
            /\ pass.attempted =
                   [ k \in 1..pass.k |-> pass.sorted[k].id ]
            /\ Len(pass.made) =
                   IF pass.pc = "awaitSingle" /\ pass.result.ok
                   THEN Len(pass.attempted) ELSE Len(pass.attempted) - 1
            /\ renderStats.totalComponents = Len(pass.made)

\* C27: every pass starts from fresh statistics (all counts zero, no key),
\* and the snapshot a pass has published on renderComplete reads after every
\* later step as it was published, nested counts included.
C27_SnapshotImmutable ==
    [][ /\ \A q \in 1..MaxPasses :
             StartStep(q) =>
               /\ renderStats'.totalComponents = 0
               /\ renderStats'.componentsByType = EmptyCounts
               /\ renderStats'.componentsByCategory = EmptyCounts
               /\ renderStats'.fallbacksUsed = 0
        /\ \A i \in 1..Len(emitted) :
               emitted[i].stream = "renderComplete" =>
                   passes'[emitted[i].pass].snapshot = emitted[i].stats
      ]_vars

\* C28 as stated: the published interaction event has eventType
\* 'interaction' when the widget omitted the type of its event data, and the
\* type the widget supplied otherwise.
C28_EventTypeAsSupplied ==
    [][ \A n \in NewCalls("onInteraction") :
          LET inv == invocations'[n]
              event == componentInteraction'[Len(componentInteraction')]
          IN
          /\ Len(componentInteraction') = Len(componentInteraction) + 1
          /\ event.eventType = IF inv.arg.type = "none" THEN "interaction"
                               ELSE inv.arg.type
      ]_vars

\* C28: the published interaction event has eventType 'interaction' when the
\* widget omitted the type of its event data or supplied one that counts as
\* false (the empty string), and the type the widget supplied otherwise.
C28_EventTypeDefault ==
    [][ \A n \in NewCalls("onInteraction") :
          LET inv == invocations'[n]
              event == componentInteraction'[Len(componentInteraction')]
          IN
          /\ Len(componentInteraction') = Len(componentInteraction) + 1
          /\ event.eventType = IF inv.arg.type \in {"none", ""} THEN "interaction"
                               ELSE inv.arg.type
      ]_vars

\* Three kinds of interaction have been published: one whose type was
\* omitted, one whose type was the empty string, and one with a type.
C28_Witness ==
    /\ \E n \in 1..Len(invocations) :
           /\ invocations[n].hook = "onInteraction"
           /\ invocations[n].via = "bridge"
           /\ invocations[n].arg.type = ""
    /\ \E n \in 1..Len(invocations) :
           /\ invocations[n].hook = "onInteraction"
           /\ invocations[n].via = "bridge"
           /\ invocations[n].arg.type = "none"
    /\ \E e \in 1..Len(componentInteraction) :
           componentInteraction[e].eventType = "interaction"

\* C29: when a pass has taken up the instance made for an entry, the
\* instance's data has every field of the entry's payload with the payload's
\* value, and _agui is the context made of the entry's id, type, title,
\* priority, category and agui_spec, also when the payload has an _agui field
\* of its own.
C29_PayloadWithContext ==
    [][ \A p \in 1..MaxPasses :
          CommitStep(p) =>
            LET entry == passes[p].sorted[passes[p].k]
                ref == passes'[p].made[Len(passes'[p].made)]
                data == instances'[ref].data
            IN
            /\ DOMAIN data = DOMAIN entry.data
            /\ \A field \in DOMAIN entry.data \ {"agui"} :
                   data[field] = entry.data[field]
            /\ data.agui = [ id |-> entry.id, type |-> entry.type,
                             title |-> entry.title, priority |-> entry.priority,
                             category |-> entry.category,
                             spec |-> entry.agui_spec ]
      ]_vars

\* The instance made for an entry whose payload has an _agui field of its
\* own is managed, and its _agui is the entry's context.
C29_Witness ==
    \E i \in 1..Len(createdComponents) :
        LET ref == createdComponents[i] IN
        /\ OwnerOf(ref) # 0
        /\ EntryOf(ref).data.agui = SuppliedAgui
        /\ instances[ref].data.agui.id = EntryOf(ref).id
        /\ instances[ref].data.agui.type = "data_table"

\* C30: whenever no invocation of renderComponents is suspended, the views
\* mounted in the container are exactly the managed instances: every mounted
\* instance is in createdComponents, and every instance in createdComponents
\* is still mounted (not destroyed).
C30_MountedIsManaged ==
    microtasks = << >> => Range(container) = Range(createdComponents)

\* C31: an invocation of renderComponents on a message with a components
\* array has published exactly one event when it has ended, a renderComplete
\* if it ended without a failure and a renderError if it failed, and none
\* before it ends; an invocation on a message without components publishes
\* none.
C31_OneTerminalEvent ==
    \A p \in PassIds :
        LET pass == passes[p] IN
        pass.call = "renderComponents" =>
            /\ pass.pc # "done" => EventsOf(p) = {}
            /\ pass.outcome = "cleared" => EventsOf(p) = {}
            /\ (pass.pc = "done" /\ pass.outcome # "cleared") =>
                   /\ pass.outcome \in {"complete", "error"}
                   /\ Cardinality(EventsOf(p)) = 1
                   /\ \A i \in EventsOf(p) :
                          emitted[i].stream =
                              IF pass.outcome = "complete"
                              THEN "renderComplete" ELSE "renderError"

\* One invocation has failed and published its one renderError, another, on
\* a message without components, has published nothing.
C31_Witness ==
    /\ \E p \in PassIds :
        /\ passes[p].call = "renderComponents"
        /\ passes[p].pc = "done" /\ passes[p].outcome = "error"
        /\ Cardinality(EventsOf(p)) = 1
    /\ \E q \in PassIds :
        /\ passes[q].call = "renderComponents"
        /\ passes[q].outcome = "cleared"
        /\ EventsOf(q) = {}

\* C32: whenever isRendering is false no invocation of renderComponents is
\* in progress: none is suspended between two entries and none will make
\* another instance.
C32_IdleMeansNoPass ==
    ~isRendering => \A p \in PassIds : passes[p].pc = "done"

\* C33: once ngOnDestroy has run, createdComponents is empty and stays
\* empty, no instance is made in the container any more and no event is
\* published.
C33_NothingAfterTeardown ==
    [][ lifecycle = "destroyed" =>
          /\ createdComponents' = << >>
          /\ instances' = instances
          /\ container' = container
          /\ emitted' = emitted ]_vars

\* No call that starts a pass or clears has been made while an invocation of
\* renderComponents was suspended.
NonOverlapping == \A p \in PassIds : ~passes[p].overlapped

\* totalComponents is the sum of the counts by type, the sum of the counts by
\* category and the number of managed instances, and fallbacksUsed lies
\* between 0 and totalComponents.
StatsAgree ==
    /\ renderStats.totalComponents = SumCounts(renderStats.componentsByType)
    /\ renderStats.totalComponents = SumCounts(renderStats.componentsByCategory)
    /\ renderStats.totalComponents = Len(createdComponents)
    /\ 0 <= renderStats.fallbacksUsed
    /\ renderStats.fallbacksUsed <= renderStats.totalComponents

\* C34: while the renderer has not been torn down, after any sequence of
\* passes, clearComponents calls and retries none of which overlaps another,
\* the statistics agree with each other and with the managed set.
C34_StatsAgreeUntilTeardown ==
    (NonOverlapping /\ lifecycle # "destroyed") => StatsAgree

\* After a first pass, a second, non-overlapping pass has made two instances,
\* one of them by fallback, and the statistics say so.
C34_Witness ==
    /\ NonOverlapping /\ lifecycle = "initialized"
    /\ Len(passes) = 2 /\ passes[2].pc = "done"
    /\ Len(createdComponents) = 2
    /\ renderStats.totalComponents = 2
    /\ renderStats.fallbacksUsed = 1

\* C34 as stated, the cleanup of ngOnDestroy included: after any sequence of
\* non-overlapping passes and cleanups the statistics agree with each other
\* and with the managed set.
C34_StatsAgreeAlways == NonOverlapping => StatsAgree

\* C35: whatever integer maxComponents is, zero and negative values
\* included, an invocation of renderComponents makes at most
\* max(0, maxComponents) instances.
C35_CapBoundsInstances ==
    \A p \in PassIds :
        Len(passes[p].made) <= (IF passes[p].cap < 0 THEN 0 ELSE passes[p].cap)

\* The widget classes initializeRegistry registers.
InitialClasses ==
    { InitialRegistry[type].componentClass : type \in DOMAIN InitialRegistry }

\* C36: every managed instance of a class that initializeRegistry registers
\* has the renderer's bridges as its onInteraction and onDataChange hooks.
C36_RepositoryWidgetsBridged ==
    \A ref \in Range(createdComponents) :
        instances[ref].componentClass \in InitialClasses =>
            /\ instances[ref].onInteraction = "bridge"
            /\ instances[ref].onDataChange = "bridge"

\* C37: a call of a hook by a widget that is not in createdComponents (any
\* more) publishes nothing on componentInteraction and nothing on
\* componentDataChange.
C37_RemovedWidgetsAreSilent ==
    [][ \A n \in (Len(invocations) + 1)..Len(invocations') :
          invocations'[n].ref \notin Range(createdComponents) =>
              /\ componentInteraction' = componentInteraction
              /\ componentDataChange' = componentDataChange ]_vars

\* The context the renderer derives from a manifest entry.
ContextOf(entry) ==
    [ id |-> entry.id, type |-> entry.type, title |-> entry.title,
      priority |-> entry.priority, category |-> entry.category,
      spec |-> entry.agui_spec ]

\* C38: the payload a managed widget saw at its first refresh, the one
\* createComponent forces, had as _agui the context of the entry the widget
\* was made for.
C38_ContextAtFirstRefresh ==
    \A ref \in Range(createdComponents) :
        OwnerOf(ref) # 0 => instances[ref].initAgui = ContextOf(EntryOf(ref))

\* In this step invocation p of renderComponents has ended without a
\* failure: it has returned early (no components) or published its
\* completion.
EndsWithoutFailure(p) ==
    /\ p <= Len(passes')
    /\ passes'[p].call = "renderComponents"
    /\ passes'[p].pc = "done"
    /\ passes'[p].outcome \in {"cleared", "complete"}
    /\ p <= Len(passes) => passes[p].pc # "done"

\* C39: when a call of renderComponents ends without a failure, also one on
\* a null manifest after a failed pass, renderErrorMessage is null.
C39_NoErrorAfterSuccess ==
    [][ \A p \in 1..MaxPasses :
          EndsWithoutFailure(p) => renderErrorMessage' = NoError ]_vars

\* C40: whatever the registry holds when createComponent is called, a call
\* that succeeds returns as actualType a type that is registered then, as
\* metadata the registry's entry of that type, and wasOriginalType true
\* exactly when actualType is the requested type.
C40_ResultMatchesRegistry ==
    [][ \A p \in 1..Len(passes') :
          (CreationStep(p) /\ passes'[p].result.ok) =>
            LET requested == passes'[p].sorted[passes'[p].k].type
                result == passes'[p].result
            IN  /\ result.actualType \in DOMAIN componentRegistry
                /\ result.metadata = componentRegistry[result.actualType]
                /\ result.wasOriginalType <=> result.actualType = requested
      ]_vars

\* After the registry has been changed, a call for a type that is not
\* registered has succeeded with another, registered type, whose entry it
\* returned.
C40_Witness ==
    \E p \in PassIds :
        /\ regOps > 0
        /\ passes[p].pc = "awaitCreate" /\ passes[p].result.ok
        /\ passes[p].sorted[passes[p].k].type \notin DOMAIN componentRegistry
        /\ passes[p].result.actualType # passes[p].sorted[passes[p].k].type
        /\ passes[p].result.actualType \in DOMAIN componentRegistry
        /\ passes[p].result.metadata =
               componentRegistry[passes[p].result.actualType]
        /\ ~passes[p].result.wasOriginalType

====
